---- MODULE Spec2Model ----
(***************************************************************************)
(* Model of dados_meteorologicos.py: the CSV loader (carregar_dados), the  *)
(* date-range validator (validar_intervalo_datas), the period view         *)
(* (visualizar_dados), the two reports (mes_mais_chuvoso,                   *)
(* media_temp_minima_mes) and the menu loop of main that calls them.       *)
(*                                                                         *)
(* Text is modelled by its fields: the date text "15/02/2015" is           *)
(* <<15, 2, 2015>>, the decimal text "5.0" is <<5, 0>>, and any other text *)
(* (an empty field, a header word) is a tuple of another length.  Numbers  *)
(* are held in tenths (5.0 is 50), a datetime is [ano, mes, dia], a dict   *)
(* is the sequence of its items in insertion order.                        *)
(***************************************************************************)
EXTENDS Integers, Sequences, FiniteSets, TLC

VARIABLES arquivo, pc, dados, op, saida, falha

vars == <<arquivo, pc, dados, op, saida, falha>>

----------------------------------------------------------------------------
(* Bounds of the model *)

MaxLinhas == 2        \* data rows of the input file beyond its first row
Margem == 1           \* how far the validator's arguments go beyond the valid bounds

(* Constants of the program *)

MinColunas == 6
AnoMinimo == 1961
AnoMaximo == 2016
FaixaInicio == 2006
FaixaFim == 2016

----------------------------------------------------------------------------
(* Generic helpers for sequences *)

RECURSIVE SomaSeq(_)
SomaSeq(s) == IF s = <<>> THEN 0 ELSE Head(s) + SomaSeq(Tail(s))

RECURSIVE MDC(_, _)
MDC(a, b) == IF b = 0 THEN a ELSE MDC(b, a % b)

Abs(x) == IF x < 0 THEN 0 - x ELSE x

\* The quotient num / den (den > 0) as a fraction in lowest terms.
Dividir(num, den) ==
    LET g == MDC(Abs(num), den)
    IN  [num |-> num \div g, den |-> den \div g]

RECURSIVE SomaFracoes(_)
SomaFracoes(s) ==
    IF s = <<>> THEN [num |-> 0, den |-> 1]
    ELSE LET r == SomaFracoes(Tail(s))
             h == Head(s)
         IN  Dividir(h.num * r.den + r.num * h.den, h.den * r.den)

----------------------------------------------------------------------------
(* Dates and text conversions *)

NomeMes ==
    <<"January", "February", "March", "April", "May", "June", "July",
      "August", "September", "October", "November", "December">>

Bissexto(a) == (a % 4 = 0 /\ a % 100 # 0) \/ a % 400 = 0

DiasNoMes(m, a) ==
    IF m = 2 THEN (IF Bissexto(a) THEN 29 ELSE 28)
    ELSE IF m \in {4, 6, 9, 11} THEN 30 ELSE 31

\* datetime.strptime(texto, '%d/%m/%Y') raises ValueError unless this holds.
StrptimeOk(t) ==
    /\ Len(t) = 3
    /\ t[3] \in 1..9999
    /\ t[2] \in 1..12
    /\ t[1] \in 1..DiasNoMes(t[2], t[3])

strptime(t) == [ano |-> t[3], mes |-> t[2], dia |-> t[1]]

\* data.strftime('%d/%m/%Y')
strftime(d) == <<d.dia, d.mes, d.ano>>

datetime(a, m, d) == [ano |-> a, mes |-> m, dia |-> d]

\* a <= b on datetime values
DataMenorIgual(a, b) ==
    \/ a.ano < b.ano
    \/ a.ano = b.ano /\ a.mes < b.mes
    \/ a.ano = b.ano /\ a.mes = b.mes /\ a.dia <= b.dia

\* float(texto) raises ValueError unless this holds.
FloatOk(t) == Len(t) = 2 /\ t[1] >= 0 /\ t[2] \in 0..9

\* float(texto), in tenths
float(t) == 10 * t[1] + t[2]

\* f"{v:.1f}" of a value in tenths
Formato1f(v) == <<v \div 10, v % 10>>

----------------------------------------------------------------------------
(* carregar_dados *)

LinhaConverte(linha) ==
    /\ StrptimeOk(linha[1])
    /\ \A c \in 2..6 : FloatOk(linha[c])

Registro(linha) ==
    [data |-> strptime(linha[1]),
     precipitacao |-> float(linha[2]),
     temp_max |-> float(linha[3]),
     temp_min |-> float(linha[4]),
     umidade |-> float(linha[5]),
     vento |-> float(linha[6])]

\* Faulty variant: the first row is not consumed before the loop.
NaoPularCabecalho(linhas) == linhas

\* next(leitor): the rows that remain after the first one was consumed.
PularCabecalho(linhas) == Tail(linhas)

\* The loop over the rows; a conversion error leaves the loop as an exception.
RECURSIVE LerLinhas(_, _, _)
LerLinhas(linhas, i, acc) ==
    IF i > Len(linhas) THEN [erro |-> FALSE, dados |-> acc]
    ELSE IF Len(linhas[i]) >= MinColunas
         THEN IF LinhaConverte(linhas[i])
              THEN LerLinhas(linhas, i + 1, Append(acc, Registro(linhas[i])))
              ELSE [erro |-> TRUE, dados |-> acc]
         ELSE LerLinhas(linhas, i + 1, acc)

carregar_dados(arq) ==
    IF arq.estado = "ausente"
    THEN [dados |-> <<>>, mensagem |-> "Erro: Arquivo nao encontrado."]
    ELSE IF arq.estado = "ilegivel" \/ Len(arq.linhas) = 0
    THEN [dados |-> <<>>, mensagem |-> "Erro ao ler o arquivo"]
    ELSE LET r == LerLinhas(PularCabecalho(arq.linhas), 1, <<>>)
         IN  IF r.erro
             THEN [dados |-> <<>>, mensagem |-> "Erro ao ler o arquivo"]
             ELSE [dados |-> r.dados, mensagem |-> ""]

----------------------------------------------------------------------------
(* validar_intervalo_datas *)

\* Faulty variant: a range inside one month counts as start after end.
InicioNaoAntesDoFim(mes_inicio, ano_inicio, mes_fim, ano_fim) ==
    ano_inicio > ano_fim \/ (ano_inicio = ano_fim /\ mes_inicio >= mes_fim)

InicioDepoisDoFim(mes_inicio, ano_inicio, mes_fim, ano_fim) ==
    ano_inicio > ano_fim \/ (ano_inicio = ano_fim /\ mes_inicio > mes_fim)

validar_intervalo_datas(d, mes_inicio, ano_inicio, mes_fim, ano_fim) ==
    IF ~(1 <= mes_inicio /\ mes_inicio <= 12 /\ 1 <= mes_fim /\ mes_fim <= 12)
    THEN FALSE
    ELSE IF ~(/\ AnoMinimo <= ano_inicio /\ ano_inicio <= AnoMaximo
              /\ AnoMinimo <= ano_fim /\ ano_fim <= AnoMaximo)
    THEN FALSE
    ELSE IF InicioDepoisDoFim(mes_inicio, ano_inicio, mes_fim, ano_fim)
    THEN FALSE
    ELSE TRUE

----------------------------------------------------------------------------
(* visualizar_dados *)

\* Faulty variant: the end of the period is exclusive.
NoPeriodoFimExclusivo(data, data_inicio, data_fim) ==
    DataMenorIgual(data_inicio, data) /\ ~DataMenorIgual(data_fim, data)

\* data_inicio <= registro['data'] <= data_fim
NoPeriodo(data, data_inicio, data_fim) ==
    DataMenorIgual(data_inicio, data) /\ DataMenorIgual(data, data_fim)

\* The line printed for one record under a view type.
LinhaImpressa(r, tipo) ==
    IF tipo = 1
    THEN <<strftime(r.data), Formato1f(r.precipitacao), Formato1f(r.temp_max),
           Formato1f(r.temp_min), Formato1f(r.umidade), Formato1f(r.vento)>>
    ELSE IF tipo = 2
    THEN <<strftime(r.data), Formato1f(r.precipitacao)>>
    ELSE IF tipo = 3
    THEN <<strftime(r.data), Formato1f(r.temp_max), Formato1f(r.temp_min)>>
    ELSE <<strftime(r.data), Formato1f(r.umidade), Formato1f(r.vento)>>

RECURSIVE ImprimirPeriodo(_, _, _, _, _)
ImprimirPeriodo(d, i, data_inicio, data_fim, tipo) ==
    IF i > Len(d) THEN <<>>
    ELSE LET resto == ImprimirPeriodo(d, i + 1, data_inicio, data_fim, tipo)
         IN  IF NoPeriodo(d[i].data, data_inicio, data_fim) /\ tipo \in 1..4
             THEN <<LinhaImpressa(d[i], tipo)>> \o resto
             ELSE resto

\* Faulty variant: the collection is filtered in place.
visualizar_dados_filtra(d, mes_inicio, ano_inicio, mes_fim, ano_fim, tipo) ==
    IF ~validar_intervalo_datas(d, mes_inicio, ano_inicio, mes_fim, ano_fim)
    THEN [dados |-> d, mensagem |-> "Intervalo de datas invalido!", linhas |-> <<>>]
    ELSE [dados |-> SelectSeq(d, LAMBDA r :
                        NoPeriodo(r.data, datetime(ano_inicio, mes_inicio, 1),
                                  datetime(ano_fim, mes_fim, 1))),
          mensagem |-> "Dados do periodo solicitado:",
          linhas |-> ImprimirPeriodo(d, 1, datetime(ano_inicio, mes_inicio, 1),
                                     datetime(ano_fim, mes_fim, 1), tipo)]

\* The call's printed lines, and the collection as the call leaves it.
visualizar_dados(d, mes_inicio, ano_inicio, mes_fim, ano_fim, tipo) ==
    IF ~validar_intervalo_datas(d, mes_inicio, ano_inicio, mes_fim, ano_fim)
    THEN [dados |-> d, mensagem |-> "Intervalo de datas invalido!", linhas |-> <<>>]
    ELSE [dados |-> d, mensagem |-> "Dados do periodo solicitado:",
          linhas |-> ImprimirPeriodo(d, 1, datetime(ano_inicio, mes_inicio, 1),
                                     datetime(ano_fim, mes_fim, 1), tipo)]

----------------------------------------------------------------------------
(* mes_mais_chuvoso *)

\* strftime('%B/%Y'), and f"{strftime('%B')}{year}": month name and year.
ChaveMesAno(data) == [mes |-> NomeMes[data.mes], ano |-> data.ano]

\* Position of a key among the items of a dict, 0 when absent.
PosicaoChave(itens, chave) ==
    IF \E k \in 1..Len(itens) : itens[k].chave = chave
    THEN CHOOSE k \in 1..Len(itens) : itens[k].chave = chave
    ELSE 0

\* Faulty variant: the total is overwritten instead of added to.
AtribuirPrecipitacao(total, precipitacao) == precipitacao

\* precipitacao_por_mes[mes_ano] += registro['precipitacao']
SomarPrecipitacao(total, precipitacao) == total + precipitacao

RECURSIVE AcumularPrecipitacao(_, _, _)
AcumularPrecipitacao(d, i, itens) ==
    IF i > Len(d) THEN itens
    ELSE LET chave == ChaveMesAno(d[i].data)
             k == PosicaoChave(itens, chave)
             comChave == IF k = 0
                         THEN Append(itens, [chave |-> chave, total |-> 0])
                         ELSE itens
             j == IF k = 0 THEN Len(comChave) ELSE k
         IN  AcumularPrecipitacao(d, i + 1,
                 [comChave EXCEPT ![j].total =
                      SomarPrecipitacao(@, d[i].precipitacao)])

\* Faulty variant: an equal total also replaces the current best.
SubstituiMaximoOuIgual(total, melhor) == total >= melhor

\* max() replaces its current best only by an item that compares greater.
SubstituiMaximo(total, melhor) == total > melhor

RECURSIVE MaximoPorTotal(_, _, _)
MaximoPorTotal(itens, i, melhor) ==
    IF i > Len(itens) THEN melhor
    ELSE MaximoPorTotal(itens, i + 1,
             IF SubstituiMaximo(itens[i].total, itens[melhor].total)
             THEN i ELSE melhor)

\* max() of an empty sequence raises ValueError.
mes_mais_chuvoso(d) ==
    LET itens == AcumularPrecipitacao(d, 1, <<>>)
    IN  IF itens = <<>>
        THEN [dados |-> d, erro |-> TRUE, resultado |-> <<>>]
        ELSE [dados |-> d, erro |-> FALSE,
              resultado |-> <<itens[MaximoPorTotal(itens, 2, 1)]>>]

----------------------------------------------------------------------------
(* media_temp_minima_mes *)

\* Faulty variant: the band starts one year early.
NaFaixaUmAnoAntes(ano) == FaixaInicio - 1 <= ano /\ ano <= FaixaFim

NaFaixa(ano) == FaixaInicio <= ano /\ ano <= FaixaFim

RECURSIVE AgruparTempMin(_, _, _, _)
AgruparTempMin(d, i, mes, itens) ==
    IF i > Len(d) THEN itens
    ELSE IF NaFaixa(d[i].data.ano) /\ d[i].data.mes = mes
    THEN LET chave == ChaveMesAno(d[i].data)
             k == PosicaoChave(itens, chave)
             comChave == IF k = 0
                         THEN Append(itens, [chave |-> chave, valores |-> <<>>])
                         ELSE itens
             j == IF k = 0 THEN Len(comChave) ELSE k
         IN  AgruparTempMin(d, i + 1, mes,
                 [comChave EXCEPT ![j].valores = Append(@, d[i].temp_min)])
    ELSE AgruparTempMin(d, i + 1, mes, itens)

\* sum(valores) / len(valores)
Media(valores) == Dividir(SomaSeq(valores), Len(valores))

media_temp_minima_mes(d, mes) ==
    IF ~(1 <= mes /\ mes <= 12)
    THEN [dados |-> d, medias |-> <<>>]
    ELSE LET itens == AgruparTempMin(d, 1, mes, <<>>)
         IN  [dados |-> d,
              medias |-> [k \in 1..Len(itens) |->
                             [chave |-> itens[k].chave,
                              media |-> Media(itens[k].valores)]]]

\* sum(medias.values()) / len(medias)
MediaGeral(medias) ==
    LET soma == SomaFracoes([k \in 1..Len(medias) |-> medias[k].media])
    IN  Dividir(soma.num, soma.den * Len(medias))

----------------------------------------------------------------------------
(* Inputs: the files carregar_dados may be given, and what the user types *)

Outro == <<>>        \* a text that is neither a date nor a number

Cabecalho == <<Outro, Outro, Outro, Outro, Outro, Outro>>

DatasTexto ==
    {<<15, 2, 2015>>, <<1, 3, 2015>>, <<15, 3, 2015>>, <<1, 4, 2015>>,
     <<15, 2, 2005>>}

ValoresTexto ==
    {[precipitacao |-> <<5, 0>>, temp_min |-> <<10, 0>>],
     [precipitacao |-> <<20, 0>>, temp_min |-> <<14, 0>>]}

LinhaBoa(data, v) ==
    <<data, v.precipitacao, <<30, 5>>, v.temp_min, <<80, 0>>, <<2, 5>>>>

LinhasBoas == {LinhaBoa(data, v) : data \in DatasTexto, v \in ValoresTexto}

LinhasRuins ==
    {<<<<15, 2, 2015>>, <<5, 0>>, <<30, 5>>, <<10, 0>>, <<80, 0>>>>,           \* five columns
     <<<<31, 2, 2015>>, <<5, 0>>, <<30, 5>>, <<10, 0>>, <<80, 0>>, <<2, 5>>>>, \* no such day
     <<<<15, 2, 2015>>, Outro, <<30, 5>>, <<10, 0>>, <<80, 0>>, <<2, 5>>>>}    \* empty number

LinhasDeDados == LinhasBoas \cup LinhasRuins

PrimeirasLinhas == {Cabecalho, LinhaBoa(<<1, 3, 2015>>, [precipitacao |-> <<20, 0>>, temp_min |-> <<14, 0>>])}

RECURSIVE SeqAte(_, _)
SeqAte(S, n) ==
    IF n = 0 THEN {<<>>}
    ELSE LET menores == SeqAte(S, n - 1)
         IN  menores \cup {Append(q, x) : q \in {m \in menores : Len(m) = n - 1}, x \in S}

Arquivos ==
    {[estado |-> "ausente", linhas |-> <<>>],
     [estado |-> "ilegivel", linhas |-> <<>>],
     [estado |-> "ok", linhas |-> <<>>]}
    \cup {[estado |-> "ok", linhas |-> <<p>> \o q] :
              p \in PrimeirasLinhas, q \in SeqAte(LinhasDeDados, MaxLinhas)}

MesesEntrada == {2, 3, 13}
AnosEntrada == {1960, 2005, 2015}
TiposEntrada == 1..5
MesesMedia == {0, 2, 3, 13}

----------------------------------------------------------------------------
(* main *)

Op(nome) ==
    [nome |-> nome, mes_inicio |-> 0, ano_inicio |-> 0, mes_fim |-> 0,
     ano_fim |-> 0, tipo |-> 0, mes |-> 0]

SemSaida ==
    [mensagem |-> "", linhas |-> <<>>, resultado |-> <<>>, medias |-> <<>>,
     geral |-> <<>>, valido |-> FALSE]

Init ==
    /\ arquivo \in Arquivos
    /\ pc = "inicio"
    /\ dados = <<>>
    /\ op = Op("")
    /\ saida = SemSaida
    /\ falha = FALSE

\* Faulty variant: main goes on to the menu whatever was loaded.
SemDadosIgnorado(d) == FALSE

\* if not dados: return
SemDados(d) == d = <<>>

Carregar ==
    /\ pc = "inicio"
    /\ LET r == carregar_dados(arquivo)
       IN  /\ dados' = r.dados
           /\ saida' = [SemSaida EXCEPT !.mensagem = r.mensagem]
           /\ pc' = IF SemDados(r.dados) THEN "fim" ELSE "carregado"
    /\ op' = Op("carregar_dados")
    /\ UNCHANGED <<arquivo, falha>>

Opcao1 ==
    /\ pc = "menu"
    /\ \E mi \in MesesEntrada, ai \in AnosEntrada, mf \in MesesEntrada,
          af \in AnosEntrada, tipo \in TiposEntrada :
          /\ op' = [Op(IF 1 <= tipo /\ tipo <= 4 THEN "visualizar_dados"
                                                 ELSE "opcao 1: tipo invalido")
                       EXCEPT !.mes_inicio = mi, !.ano_inicio = ai,
                              !.mes_fim = mf, !.ano_fim = af, !.tipo = tipo]
          /\ IF 1 <= tipo /\ tipo <= 4
             THEN LET r == visualizar_dados(dados, mi, ai, mf, af, tipo)
                  IN  /\ dados' = r.dados
                      /\ saida' = [SemSaida EXCEPT !.mensagem = r.mensagem,
                                                   !.linhas = r.linhas]
             ELSE /\ dados' = dados
                  /\ saida' = [SemSaida EXCEPT
                                  !.mensagem = "Opcao de visualizacao invalida!"]
    /\ pc' = "saida"
    /\ UNCHANGED <<arquivo, falha>>

\* int(input(...)) raised ValueError on one of the five answers
Opcao1ValueError ==
    /\ pc = "menu"
    /\ op' = Op("opcao 1: ValueError")
    /\ saida' = [SemSaida EXCEPT
                    !.mensagem = "Por favor, insira valores numericos validos!"]
    /\ pc' = "saida"
    /\ UNCHANGED <<arquivo, dados, falha>>

Opcao2 ==
    /\ pc = "menu"
    /\ op' = Op("mes_mais_chuvoso")
    /\ LET r == mes_mais_chuvoso(dados)
       IN  /\ dados' = r.dados
           /\ falha' = r.erro
           /\ pc' = IF r.erro THEN "fim" ELSE "saida"
           /\ saida' = IF r.erro THEN SemSaida
                       ELSE [SemSaida EXCEPT !.mensagem = "Mes mais chuvoso:",
                                             !.resultado = r.resultado]
    /\ UNCHANGED arquivo

Opcao3 ==
    /\ pc = "menu"
    /\ \E mes \in MesesMedia :
          /\ op' = [Op("media_temp_minima_mes") EXCEPT !.mes = mes]
          /\ LET r == media_temp_minima_mes(dados, mes)
             IN  /\ dados' = r.dados
                 /\ saida' =
                        IF r.medias # <<>>
                        THEN [SemSaida EXCEPT
                                 !.mensagem = "Medias de temperatura minima por ano:",
                                 !.medias = r.medias,
                                 !.geral = <<MediaGeral(r.medias)>>]
                        ELSE [SemSaida EXCEPT
                                 !.mensagem = "Mes invalido ou sem dados disponiveis!"]
    /\ pc' = "saida"
    /\ UNCHANGED <<arquivo, falha>>

\* int(input(...)) raised ValueError
Opcao3ValueError ==
    /\ pc = "menu"
    /\ op' = Op("opcao 3: ValueError")
    /\ saida' = [SemSaida EXCEPT !.mensagem = "Por favor, insira um numero valido!"]
    /\ pc' = "saida"
    /\ UNCHANGED <<arquivo, dados, falha>>

Opcao4 ==
    /\ pc = "menu"
    /\ op' = Op("sair")
    /\ saida' = [SemSaida EXCEPT !.mensagem = "Programa encerrado!"]
    /\ pc' = "fim"
    /\ UNCHANGED <<arquivo, dados, falha>>

OpcaoInvalida ==
    /\ pc = "menu"
    /\ op' = Op("opcao invalida")
    /\ saida' = [SemSaida EXCEPT !.mensagem = "Opcao invalida!"]
    /\ pc' = "saida"
    /\ UNCHANGED <<arquivo, dados, falha>>

\* while True: the menu is printed again and the next option is awaited
VoltarAoMenu ==
    /\ pc \in {"carregado", "saida"}
    /\ pc' = "menu"
    /\ op' = Op("menu")
    /\ saida' = [SemSaida EXCEPT !.mensagem = "Menu Principal:"]
    /\ UNCHANGED <<arquivo, dados, falha>>

Next ==
    \/ Carregar
    \/ Opcao1
    \/ Opcao1ValueError
    \/ Opcao2
    \/ Opcao3
    \/ Opcao3ValueError
    \/ Opcao4
    \/ OpcaoInvalida
    \/ VoltarAoMenu

Spec == Init /\ [][Next]_vars

----------------------------------------------------------------------------
(* validar_intervalo_datas on its own, over a grid of arguments *)

MesesValidar == (1 - Margem)..(12 + Margem)

AnosValidar ==
    ((AnoMinimo - Margem)..(AnoMinimo + Margem))
        \cup ((AnoMaximo - Margem)..(AnoMaximo + Margem))

ColecoesValidar ==
    {<<>>, <<Registro(LinhaBoa(<<15, 2, 2015>>, [precipitacao |-> <<5, 0>>, temp_min |-> <<10, 0>>]))>>}

InitValidar ==
    /\ arquivo = [estado |-> "ausente", linhas |-> <<>>]
    /\ pc = "chamada"
    /\ dados \in ColecoesValidar
    /\ \E mi \in MesesValidar, ai \in AnosValidar, mf \in MesesValidar,
          af \in AnosValidar :
          op = [Op("validar_intervalo_datas") EXCEPT
                   !.mes_inicio = mi, !.ano_inicio = ai, !.mes_fim = mf,
                   !.ano_fim = af]
    /\ saida = SemSaida
    /\ falha = FALSE

ChamarValidar ==
    /\ pc = "chamada"
    /\ saida' = [SemSaida EXCEPT !.valido =
                    validar_intervalo_datas(dados, op.mes_inicio, op.ano_inicio,
                                            op.mes_fim, op.ano_fim)]
    /\ pc' = "retorno"
    /\ UNCHANGED <<arquivo, dados, op, falha>>

NextValidar == ChamarValidar

SpecValidar == InitValidar /\ [][NextValidar]_vars

----------------------------------------------------------------------------
(* Vocabulary of the properties, stated on the file and the collection     *)
(* without the operators of the functions under check                      *)

Carregado == pc # "inicio"

LinhaBemFormada(linha) == Len(linha) >= 6 /\ LinhaConverte(linha)

\* yyyymmdd of a datetime
Ordinal(a, m, d) == a * 10000 + m * 100 + d

OrdinalDe(data) == Ordinal(data.ano, data.mes, data.dia)

IntervaloValido(mi, ai, mf, af) ==
    /\ mi \in 1..12 /\ mf \in 1..12
    /\ ai \in 1961..2016 /\ af \in 1961..2016
    /\ ~(ai > af \/ (ai = af /\ mi > mf))

IntervaloDaOp == IntervaloValido(op.mes_inicio, op.ano_inicio, op.mes_fim, op.ano_fim)

\* The records of (month m, year a), in collection order
DoGrupo(m, a) == SelectSeq(dados, LAMBDA r : r.data.mes = m /\ r.data.ano = a)

TotalPrecipitacao(m, a) ==
    LET g == DoGrupo(m, a)
    IN  SomaSeq([k \in 1..Len(g) |-> g[k].precipitacao])

TotalTempMin(m, a) ==
    LET g == DoGrupo(m, a)
    IN  SomaSeq([k \in 1..Len(g) |-> g[k].temp_min])

TotalDoRegistro(i) == TotalPrecipitacao(dados[i].data.mes, dados[i].data.ano)

Rotulo(m, a) == [mes |-> NomeMes[m], ano |-> a]

RotuloDoRegistro(i) == Rotulo(dados[i].data.mes, dados[i].data.ano)

----------------------------------------------------------------------------
(* C1 *)

\* C1: a row of six or more columns that fails to convert is dropped on its
\* own: every well-formed row after the first is still in the collection
\* that carregar_dados returns.
C1_LinhasBemFormadasFicam ==
    (Carregado /\ arquivo.estado = "ok") =>
        \A i \in 2..Len(arquivo.linhas) :
            LinhaBemFormada(arquivo.linhas[i]) =>
                \E k \in 1..Len(dados) : dados[k] = Registro(arquivo.linhas[i])

----------------------------------------------------------------------------
(* C2 *)

\* C2: for a valid range visualizar_dados prints, in collection order, exactly
\* the records dated from the first day of the start month to the first day
\* of the end month, both included; for an invalid range it prints no record
\* and does not raise.
C2_PeriodoImpresso ==
    op.nome = "visualizar_dados" =>
        /\ ~falha
        /\ IF IntervaloDaOp
           THEN LET escolhidos ==
                        SelectSeq(dados, LAMBDA r :
                            /\ Ordinal(op.ano_inicio, op.mes_inicio, 1) <= OrdinalDe(r.data)
                            /\ OrdinalDe(r.data) <= Ordinal(op.ano_fim, op.mes_fim, 1))
                IN  saida.linhas = [k \in 1..Len(escolhidos) |->
                                       LinhaImpressa(escolhidos[k], op.tipo)]
           ELSE saida.linhas = <<>>

\* [Feb/2015, Mar/2015] over a record of 1/Mar/2015 and one of 1/Apr/2015:
\* only the first is printed.
C2_Witness ==
    /\ op.nome = "visualizar_dados"
    /\ op.mes_inicio = 2 /\ op.ano_inicio = 2015
    /\ op.mes_fim = 3 /\ op.ano_fim = 2015 /\ op.tipo = 2
    /\ Len(dados) = 2
    /\ strftime(dados[1].data) = <<1, 3, 2015>>
    /\ strftime(dados[2].data) = <<1, 4, 2015>>
    /\ saida.linhas = <<LinhaImpressa(dados[1], 2)>>

----------------------------------------------------------------------------
(* C3 *)

\* C3: for a valid range, a record dated inside the end month on a day after
\* the 1st is among the printed records.
C3_FimDoMesIncluido ==
    (op.nome = "visualizar_dados" /\ IntervaloDaOp) =>
        \A i \in 1..Len(dados) :
            (/\ dados[i].data.ano = op.ano_fim
             /\ dados[i].data.mes = op.mes_fim
             /\ dados[i].data.dia > 1) =>
                \E k \in 1..Len(saida.linhas) :
                    saida.linhas[k] = LinhaImpressa(dados[i], op.tipo)

----------------------------------------------------------------------------
(* C4 *)

----------------------------------------------------------------------------
(* C5 *)

\* C5: on a non-empty collection mes_mais_chuvoso returns one (key, total):
\* the key names a (month, year) of the collection, the total is the sum of
\* precipitation over all its records, and no group has a greater sum.
C5_MesMaisChuvoso ==
    (op.nome = "mes_mais_chuvoso" /\ dados # <<>>) =>
        /\ ~falha
        /\ Len(saida.resultado) = 1
        /\ \E i \in 1..Len(dados) :
              /\ saida.resultado[1].chave = RotuloDoRegistro(i)
              /\ saida.resultado[1].total = TotalDoRegistro(i)
        /\ \A j \in 1..Len(dados) : TotalDoRegistro(j) <= saida.resultado[1].total

\* Two records in March 2015 (5.0 and 20.0): March/2015 with 25.0.
C5_Witness ==
    /\ op.nome = "mes_mais_chuvoso"
    /\ Len(dados) = 2
    /\ dados[1].data.mes = 3 /\ dados[2].data.mes = 3
    /\ dados[1].data.dia # dados[2].data.dia
    /\ dados[1].precipitacao = 50 /\ dados[2].precipitacao = 200
    /\ saida.resultado = <<[chave |-> Rotulo(3, 2015), total |-> 250]>>

----------------------------------------------------------------------------
(* C6 *)

AnosComRegistros(mes) ==
    {a \in 2006..2016 :
        \E i \in 1..Len(dados) : dados[i].data.ano = a /\ dados[i].data.mes = mes}

\* C6: media_temp_minima_mes returns exactly one key per year of 2006..2016
\* that has a record of the month, valued sum of temp_min / count; other
\* years and months outside 1..12 give no key.
C6_MediaTempMinima ==
    op.nome = "media_temp_minima_mes" =>
        /\ ~falha
        /\ \A k1, k2 \in 1..Len(saida.medias) :
              saida.medias[k1].chave = saida.medias[k2].chave => k1 = k2
        /\ {saida.medias[k].chave : k \in 1..Len(saida.medias)}
              = {Rotulo(op.mes, a) : a \in AnosComRegistros(op.mes)}
        /\ \A k \in 1..Len(saida.medias) :
              LET m == saida.medias[k].media
                  a == saida.medias[k].chave.ano
              IN  /\ m.den > 0
                  /\ Len(DoGrupo(op.mes, a)) > 0
                  /\ m.num * Len(DoGrupo(op.mes, a)) = TotalTempMin(op.mes, a) * m.den

\* Two records of March 2015 with temp_min 10.0 and 14.0: {March2015: 12.0}.
C6_Witness ==
    /\ op.nome = "media_temp_minima_mes"
    /\ op.mes = 3
    /\ Len(dados) = 2
    /\ dados[1].temp_min = 100 /\ dados[2].temp_min = 140
    /\ saida.medias = <<[chave |-> Rotulo(3, 2015), media |-> [num |-> 120, den |-> 1]]>>

----------------------------------------------------------------------------
(* C7 *)

\* The collection is the conversion of some rows after the first, all of six
\* or more columns, taken in row order.
SubsequenciaDasLinhas ==
    \E f \in [1..Len(dados) -> 2..Len(arquivo.linhas)] :
        /\ \A k1, k2 \in 1..Len(dados) : k1 < k2 => f[k1] < f[k2]
        /\ \A k \in 1..Len(dados) :
              /\ LinhaBemFormada(arquivo.linhas[f[k]])
              /\ dados[k] = Registro(arquivo.linhas[f[k]])

\* C7 as stated: the collection is an order-preserving subsequence of the
\* rows after the first, holds no row of fewer than six columns, and has at
\* most (number of rows - 1) records.
C7_SubsequenciaMenosUm ==
    (Carregado /\ arquivo.estado = "ok") =>
        /\ SubsequenciaDasLinhas
        /\ Len(dados) <= Len(arquivo.linhas) - 1

\* C7 amended: the same, the count being bounded by the number of rows after
\* the first, which is (number of rows - 1) for a file of at least one row
\* and 0 for a file with no row at all.
C7_Subsequencia ==
    (Carregado /\ arquivo.estado = "ok") =>
        /\ SubsequenciaDasLinhas
        /\ Len(arquivo.linhas) >= 1 => Len(dados) <= Len(arquivo.linhas) - 1
        /\ Len(arquivo.linhas) = 0 => Len(dados) = 0

\* A file whose first row is a well-formed data row, followed by a row of
\* five columns and a well-formed row: one record, the last row's.
C7_Witness ==
    /\ Carregado
    /\ arquivo.estado = "ok"
    /\ Len(arquivo.linhas) = 3
    /\ LinhaBemFormada(arquivo.linhas[1])
    /\ Len(arquivo.linhas[2]) < 6
    /\ LinhaBemFormada(arquivo.linhas[3])
    /\ arquivo.linhas[3] # arquivo.linhas[1]
    /\ dados = <<Registro(arquivo.linhas[3])>>

----------------------------------------------------------------------------
(* C8 *)

Consultas == {"visualizar_dados", "mes_mais_chuvoso", "media_temp_minima_mes"}

\* C8: a missing or unreadable file gives an empty collection without
\* raising; an empty collection ends main before the menu, so no query ever
\* runs on an empty collection.
C8_SemDadosSemMenu ==
    /\ ~falha
    /\ (Carregado /\ arquivo.estado # "ok") => dados = <<>>
    /\ (Carregado /\ dados = <<>>) => (pc = "fim" /\ op.nome = "carregar_dados")
    /\ op.nome \in Consultas => dados # <<>>

\* The file is missing: main has ended right after the load.
C8_Witness ==
    /\ arquivo.estado = "ausente"
    /\ pc = "fim"
    /\ op.nome = "carregar_dados"
    /\ dados = <<>>

----------------------------------------------------------------------------
(* C9 *)

\* C9: once loaded, the collection is left as it is by every step of main,
\* whatever query runs and with whatever arguments.
C9_ColecaoImutavel == [][Carregado => dados' = dados]_vars

\* A view that printed fewer records than the collection holds.
C9_Witness ==
    /\ op.nome = "visualizar_dados"
    /\ IntervaloDaOp
    /\ Len(dados) = 2
    /\ Len(saida.linhas) = 1

----------------------------------------------------------------------------
(* C10 *)

PrimeiroDoGrupo(rotulo) ==
    CHOOSE i \in 1..Len(dados) :
        /\ RotuloDoRegistro(i) = rotulo
        /\ \A j \in 1..(i - 1) : RotuloDoRegistro(j) # rotulo

\* C10: among the groups that share the maximum total, mes_mais_chuvoso
\* returns the one whose first record comes earliest in the collection.
C10_PrimeiroMaximo ==
    (op.nome = "mes_mais_chuvoso" /\ dados # <<>>) =>
        /\ Len(saida.resultado) = 1
        /\ \A j \in 1..Len(dados) :
              TotalDoRegistro(j) >= saida.resultado[1].total =>
                  PrimeiroDoGrupo(saida.resultado[1].chave) <= j

\* March/2015 then February/2015, 20.0 each: March/2015 is returned.
C10_Witness ==
    /\ op.nome = "mes_mais_chuvoso"
    /\ Len(dados) = 2
    /\ dados[1].data.mes = 3 /\ dados[2].data.mes = 2
    /\ dados[1].precipitacao = 200 /\ dados[2].precipitacao = 200
    /\ saida.resultado = <<[chave |-> Rotulo(3, 2015), total |-> 200]>>

====
